---- MODULE Spec2Model ----
(***************************************************************************)
(* json_schema_validator/main.py as a state machine.                       *)
(*                                                                         *)
(* Python objects are records [k |-> kind, v |-> payload].  Instances of   *)
(* the AnyBase classes live in `heap` (a sequence of instance records,     *)
(* the index is the object's identity) and are referred to by              *)
(* [k |-> "ref", v |-> index], so that two references to one instance      *)
(* (as made by `[item_to_repeat] * n`) see each other's writes.            *)
(*                                                                         *)
(* Every evaluation returns [val, heap, exc]: the value, the heap after    *)
(* the evaluation and the name of the exception raised ("" for none).      *)
(***************************************************************************)
EXTENDS Integers, Sequences, FiniteSets

VARIABLES
    heap,     \* the AnyBase instances allocated so far
    heap0,    \* the heap right after the schema was constructed
    schema,   \* JsonValidator.schema
    source,   \* the expression the schema was built from
    DEBUG,    \* main.DEBUG
    pc,       \* "new": no validator yet; "built"; "failed": construction raised
    last,     \* the outcome of the last call: [op, arg, res]
    threads   \* per thread: the position inside AnyList.eq and its locals

vars == <<heap, heap0, schema, source, DEBUG, pc, last, threads>>

-----------------------------------------------------------------------------
(* Python values *)

None == [k |-> "none", v |-> 0]
True == [k |-> "bool", v |-> 1]
False == [k |-> "bool", v |-> 0]
Ellipsis == [k |-> "ellipsis", v |-> 0]
PyInt(n) == [k |-> "int", v |-> n]
PyFloat(n) == [k |-> "float", v |-> n]
PyStr(s) == [k |-> "str", v |-> s]
Type(t) == [k |-> "type", v |-> t]
List(s) == [k |-> "list", v |-> s]
Dict(s) == [k |-> "dict", v |-> s]
SetOf(s) == [k |-> "set", v |-> s]
Ref(i) == [k |-> "ref", v |-> i]
Pair(key, val) == [key |-> key, val |-> val]

(* Expressions of the schema author: Any(e1, ..., en) and e1 | e2.  List,  *)
(* dict and set displays are List/Dict/SetOf over expressions.             *)
Call(args) == [k |-> "call", v |-> args]
Or(a, b) == [k |-> "or", v |-> <<a, b>>]

Ret(x, h) == [val |-> x, heap |-> h, exc |-> ""]
Raise(e, h) == [val |-> FALSE, heap |-> h, exc |-> e]

SchemaMismatch == "TypeError: Schema does not match"
NotAType == "TypeError: isinstance() arg 2 must be a type"
ReprFailed == "AttributeError: __name__"

\* t.get_args(JsonValueType), in order
JsonValueType == <<Type("int"), Type("float"), Type("bool"), Type("str"),
                   Type("dict"), Type("list")>>

\* isinstance(x, t) for a type t of JsonValueType; bool is a subclass of int
isinstance(x, t) ==
    \/ x.k = t
    \/ x.k = "bool" /\ t = "int"

Numeric == {"bool", "int", "float"}

\* x is y, for the objects whose identity the model tracks
Is(x, y) ==
    /\ x.k = y.k
    /\ x.k \in {"ref", "none", "bool", "ellipsis", "type"}
    /\ x.v = y.v

\* dict lookup: the index of `key` in the insertion-ordered pairs, 0 if absent
RECURSIVE IndexOfKey(_, _, _)
IndexOfKey(pairs, key, i) ==
    IF i > Len(pairs) THEN 0
    ELSE IF pairs[i].key = key THEN i
    ELSE IndexOfKey(pairs, key, i + 1)

HasKey(pairs, key) == IndexOfKey(pairs, key, 1) # 0

\* dict.get(key, None)
DictGet(pairs, key) ==
    IF HasKey(pairs, key) THEN pairs[IndexOfKey(pairs, key, 1)].val ELSE None

\* [x] * n ; a negative n gives the empty list
Repeat(x, n) == IF n > 0 THEN [i \in 1..n |-> x] ELSE <<>>

\* the pairs whose key is not `drop`: {k: v for k, v in pairs if k != drop}
RECURSIVE SelectKeys(_, _)
SelectKeys(pairs, drop) ==
    IF pairs = <<>> THEN <<>>
    ELSE IF Head(pairs).key = drop THEN SelectKeys(Tail(pairs), drop)
    ELSE <<Head(pairs)>> \o SelectKeys(Tail(pairs), drop)

\* {k: item for k in other if k not in required}, in other's order
RECURSIVE Unlisted(_, _, _)
Unlisted(other, required, item) ==
    IF other = <<>> THEN <<>>
    ELSE IF HasKey(required, Head(other).key) THEN Unlisted(Tail(other), required, item)
    ELSE <<Pair(Head(other).key, item)>> \o Unlisted(Tail(other), required, item)

-----------------------------------------------------------------------------
(* repr(), as far as it can fail: AnyType.__repr__ reads type_.__name__ *)

RECURSIVE ReprOk(_, _)
ReprOk(x, h) ==
    CASE x.k = "ref" ->
            LET self == h[x.v] IN
            CASE self.cls = "AnyType" -> self.type_.k = "type"
              [] self.cls = "AnyDict" ->
                    \A i \in 1..Len(self.required_dict) :
                        ReprOk(self.required_dict[i].val, h)
              [] self.cls \in {"AnyList", "AnySet"} ->
                    \A i \in 1..Len(self.required_items) :
                        ReprOk(self.required_items[i], h)
              [] self.cls = "AnyUnion" ->
                    \A i \in 1..Len(self.objs) : ReprOk(self.objs[i], h)
              [] OTHER -> TRUE
      [] x.k \in {"list", "set"} -> \A i \in 1..Len(x.v) : ReprOk(x.v[i], h)
      [] x.k = "dict" -> \A i \in 1..Len(x.v) : ReprOk(x.v[i].val, h)
      [] OTHER -> TRUE

-----------------------------------------------------------------------------------------------------------------------------------------------------
(* `==` and the eq methods.  dbg is the value of DEBUG at the call.  A     *)
(* loop is an operator for its head and one, taking the outcome r of the   *)
(* comparison just made, for the rest of the iteration.                    *)

RECURSIVE Eq(_, _, _, _)
RECURSIVE ListEq(_, _, _, _, _)
RECURSIVE DictEq(_, _, _, _, _)
RECURSIVE AllItems(_, _, _, _, _)
RECURSIVE AllZip(_, _, _, _, _)
RECURSIVE Contains(_, _, _, _, _)
RECURSIVE AllIn(_, _, _, _, _)
RECURSIVE AnyOf(_, _, _, _, _)

\* PyObject_RichCompareBool(a, b, Py_EQ): identity first, then a == b
RichCompareBool(a, b, h, dbg) ==
    IF Is(a, b) THEN Ret(TRUE, h) ELSE Eq(a, b, h, dbg)

\* list == list once the lengths agree: the first unequal pair decides
ListEqRest(a, b, i, dbg, r) ==
    IF r.exc # "" \/ ~r.val THEN r ELSE ListEq(a, b, i + 1, r.heap, dbg)

ListEq(a, b, i, h, dbg) ==
    IF i > Len(a) THEN Ret(TRUE, h)
    ELSE ListEqRest(a, b, i, dbg, RichCompareBool(a[i], b[i], h, dbg))

\* dict == dict once the sizes agree: every key of a is in b with an equal value
DictEqRest(a, b, i, dbg, r) ==
    IF r.exc # "" \/ ~r.val THEN r ELSE DictEq(a, b, i + 1, r.heap, dbg)

DictEq(a, b, i, h, dbg) ==
    IF i > Len(a) THEN Ret(TRUE, h)
    ELSE IF ~HasKey(b, a[i].key) THEN Ret(FALSE, h)
    ELSE DictEqRest(a, b, i, dbg,
                    RichCompareBool(DictGet(b, a[i].key), a[i].val, h, dbg))

\* AnyType.eq
AnyType_eq(id, other, h) ==
    IF other.k = "bool" /\ h[id].type_ = Type("int") THEN Ret(FALSE, h)
    ELSE IF h[id].type_.k # "type" THEN Raise(NotAType, h)
    ELSE Ret(isinstance(other, h[id].type_.v), h)

\* Anything.eq
Anything_eq(id, other, h) == Ret(TRUE, h)

\* all(other.get(k, None) == v for k, v in required_dict.items())
AllItemsRest(required, other, i, dbg, r) ==
    IF r.exc # "" \/ ~r.val THEN r
    ELSE AllItems(required, other, i + 1, r.heap, dbg)

AllItems(required, other, i, h, dbg) ==
    IF i > Len(required) THEN Ret(TRUE, h)
    ELSE AllItemsRest(required, other, i, dbg,
                      Eq(DictGet(other, required[i].key), required[i].val, h, dbg))

\* the required_dict AnyDict.eq builds for the candidate `other`
RequiredDict(self, other) ==
    IF self.has_ellipsis
    THEN SelectKeys(self.required_dict, Ellipsis)
            \o Unlisted(other, SelectKeys(self.required_dict, Ellipsis),
                        DictGet(self.required_dict, Ellipsis))
    ELSE SelectKeys(self.required_dict, Ellipsis)

\* AnyDict.eq
AnyDict_eq(id, other, h, dbg) ==
    IF other.k # "dict" THEN Ret(FALSE, h)
    ELSE AllItems(RequiredDict(h[id], other.v), other.v, 1, h, dbg)

\* all(a == b for a, b in zip(required_items, other)); required_items is the
\* instance's own list, read as it is when the iterator reaches position i
AllZipRest(id, other, i, dbg, r) ==
    IF r.exc # "" \/ ~r.val THEN r ELSE AllZip(id, other, i + 1, r.heap, dbg)

\* a variant that also requires the two lengths to agree
AllZipSameLength(id, other, i, h, dbg) ==
    IF Len(h[id].required_items) # Len(other) THEN Ret(FALSE, h)
    ELSE IF i > Len(other) THEN Ret(TRUE, h)
    ELSE AllZipRest(id, other, i, dbg,
                    Eq(h[id].required_items[i], other[i], h, dbg))

AllZip(id, other, i, h, dbg) ==
    IF i > Len(h[id].required_items) \/ i > Len(other) THEN Ret(TRUE, h)
    ELSE AllZipRest(id, other, i, dbg,
                    Eq(h[id].required_items[i], other[i], h, dbg))

\* what `required_items += [item_to_repeat] * (len(other) - len(...))` leaves
\* in self.required_items: += extends the instance's list in place
\* a variant that repeats required_items[0] instead of required_items[-1]
ExtendedByFirst(required_items, other) ==
    required_items
        \o Repeat(required_items[1], Len(other) - Len(required_items))

Extended(required_items, other) ==
    required_items
        \o Repeat(required_items[Len(required_items)],
                  Len(other) - Len(required_items))

\* AnyList.eq
AnyList_eq(id, other, h, dbg) ==
    IF other.k # "list" THEN Ret(FALSE, h)
    ELSE AllZip(id, other.v, 1,
                IF h[id].has_ellipsis
                THEN [h EXCEPT ![id].required_items = Extended(@, other.v)]
                ELSE h,
                dbg)

\* x in other, for a list or a tuple: the first item equal to x decides
ContainsRest(other, x, i, dbg, r) ==
    IF r.exc # "" \/ r.val THEN r ELSE Contains(other, x, i + 1, r.heap, dbg)

Contains(other, x, i, h, dbg) ==
    IF i > Len(other) THEN Ret(FALSE, h)
    ELSE ContainsRest(other, x, i, dbg, RichCompareBool(other[i], x, h, dbg))

\* all(x in other for x in self.required_items)
AllInRest(required_items, other, i, dbg, r) ==
    IF r.exc # "" \/ ~r.val THEN r
    ELSE AllIn(required_items, other, i + 1, r.heap, dbg)

AllIn(required_items, other, i, h, dbg) ==
    IF i > Len(required_items) THEN Ret(TRUE, h)
    ELSE AllInRest(required_items, other, i, dbg,
                   Contains(other, required_items[i], 1, h, dbg))

\* AnySet.eq
AnySet_eq(id, other, h, dbg) ==
    IF other.k # "list" THEN Ret(FALSE, h)
    ELSE AllIn(h[id].required_items, other.v, 1, h, dbg)

\* any(obj == other for obj in self.objs)
AnyOfRest(objs, other, i, dbg, r) ==
    IF r.exc # "" \/ r.val THEN r ELSE AnyOf(objs, other, i + 1, r.heap, dbg)

AnyOf(objs, other, i, h, dbg) ==
    IF i > Len(objs) THEN Ret(FALSE, h)
    ELSE AnyOfRest(objs, other, i, dbg, Eq(objs[i], other, h, dbg))

\* AnyUnion.eq
AnyUnion_eq(id, other, h, dbg) == AnyOf(h[id].objs, other, 1, h, dbg)

\* self.eq(other), dispatched on the class of self
eq(id, other, h, dbg) ==
    CASE h[id].cls = "AnyType" -> AnyType_eq(id, other, h)
      [] h[id].cls = "AnyDict" -> AnyDict_eq(id, other, h, dbg)
      [] h[id].cls = "AnyList" -> AnyList_eq(id, other, h, dbg)
      [] h[id].cls = "AnySet" -> AnySet_eq(id, other, h, dbg)
      [] h[id].cls = "AnyUnion" -> AnyUnion_eq(id, other, h, dbg)
      [] h[id].cls = "Anything" -> Anything_eq(id, other, h)

\* `if DEBUG and not is_equal: raise TypeError(...format(self, other))`
RaiseIfDebug(id, other, dbg, is_equal) ==
    IF is_equal.exc # "" THEN is_equal
    ELSE IF dbg /\ ~is_equal.val THEN
        IF ReprOk(Ref(id), is_equal.heap) /\ ReprOk(other, is_equal.heap)
        THEN Raise(SchemaMismatch, is_equal.heap)
        ELSE Raise(ReprFailed, is_equal.heap)
    ELSE is_equal

\* AnyBase.__eq_impl (and __eq__, __req__, which only call it)
eq_impl(id, other, h, dbg) == RaiseIfDebug(id, other, dbg, eq(id, other, h, dbg))

\* a == b: a.__eq__(b), and the reflected b.__eq__(a) when a's type does not
\* know b's; the built-in types return NotImplemented for an AnyBase instance
Eq(a, b, h, dbg) ==
    IF a.k = "ref" THEN eq_impl(a.v, b, h, dbg)
    ELSE IF b.k = "ref" THEN eq_impl(b.v, a, h, dbg)
    ELSE IF a.k \in Numeric /\ b.k \in Numeric THEN Ret(a.v = b.v, h)
    ELSE IF a.k # b.k THEN Ret(FALSE, h)
    ELSE IF a.k = "list" THEN
        IF Len(a.v) # Len(b.v) THEN Ret(FALSE, h) ELSE ListEq(a.v, b.v, 1, h, dbg)
    ELSE IF a.k = "dict" THEN
        IF Len(a.v) # Len(b.v) THEN Ret(FALSE, h) ELSE DictEq(a.v, b.v, 1, h, dbg)
    ELSE Ret(a.v = b.v, h)

\* JsonValidator.validate: self.schema == json_obj
validate(s, json_obj, h, dbg) == Eq(s, json_obj, h, dbg)

-----------------------------------------------------------------------------
(* Construction *)

\* allocate a new instance; its identity is its index in the heap
New(node, h) == Ret(Ref(Len(h) + 1), Append(h, node))

\* AnyDict.__init__
AnyDict_init(sch, h) ==
    New([cls |-> "AnyDict", has_ellipsis |-> HasKey(sch, Ellipsis),
         required_dict |-> sch], h)

\* AnyList.__init__, its last two lines, has_ellipsis being items[-1] == ...
AnyList_store(items, has_ellipsis) ==
    IF has_ellipsis.exc # "" THEN has_ellipsis
    ELSE New([cls |-> "AnyList", has_ellipsis |-> has_ellipsis.val,
              required_items |-> IF has_ellipsis.val
                                 THEN SubSeq(items, 1, Len(items) - 1)
                                 ELSE items], has_ellipsis.heap)

\* AnyList.__init__ from `assert items != [...]`, only being items == [...]
AnyList_assert_only(items, dbg, only) ==
    IF only.exc # "" THEN only
    ELSE IF only.val THEN Raise("AssertionError", only.heap)
    ELSE AnyList_store(items,
                       IF Len(items) = 0 THEN Raise("IndexError", only.heap)
                       ELSE Eq(items[Len(items)], Ellipsis, only.heap, dbg))

\* AnyList.__init__ from `assert ... not in items[:-1]`, misplaced being
\* ... in items[:-1]
AnyList_assert_last(items, dbg, misplaced) ==
    IF misplaced.exc # "" THEN misplaced
    ELSE IF misplaced.val THEN Raise("AssertionError", misplaced.heap)
    ELSE AnyList_assert_only(items, dbg,
                             IF Len(items) = 1
                             THEN RichCompareBool(items[1], Ellipsis, misplaced.heap, dbg)
                             ELSE Ret(FALSE, misplaced.heap))

\* AnyList.__init__
AnyList_init(items, h, dbg) ==
    AnyList_assert_last(items, dbg,
                        Contains(SubSeq(items, 1, Len(items) - 1), Ellipsis, 1, h, dbg))

\* AnySet.__init__
AnySet_init(items, h) == New([cls |-> "AnySet", required_items |-> items], h)

\* AnyType.__init__
AnyType_init(type_, h) == New([cls |-> "AnyType", type_ |-> type_], h)

\* AnyUnion.__init__, objs being list(objs)
AnyUnion_init(objs) ==
    IF objs.exc # "" THEN objs
    ELSE New([cls |-> "AnyUnion", objs |-> objs.val], objs.heap)

\* Anything()
Anything_init(h) == New([cls |-> "Anything"], h)

RECURSIVE Any(_, _, _)
RECURSIVE AnyEach(_, _, _, _, _)

\* the generator `Any(obj) for obj in objs`, consumed by list()
AnyEachRest(objs, i, done, dbg, r) ==
    IF r.exc # "" THEN r
    ELSE AnyEach(objs, i + 1, Append(done, r.val), r.heap, dbg)

AnyEach(objs, i, done, h, dbg) ==
    IF i > Len(objs) THEN Ret(done, h)
    ELSE AnyEachRest(objs, i, done, dbg, Any(<<objs[i]>>, h, dbg))

\* Any(obj), is_tag being obj in t.get_args(JsonValueType)
AnyOne(obj, dbg, is_tag) ==
    IF is_tag.exc # "" THEN is_tag
    ELSE IF is_tag.val THEN AnyType_init(obj, is_tag.heap)
    ELSE IF obj.k = "dict" THEN AnyDict_init(obj.v, is_tag.heap)
    ELSE IF obj.k = "list" THEN AnyList_init(obj.v, is_tag.heap, dbg)
    ELSE IF obj.k = "set" THEN AnySet_init(obj.v, is_tag.heap)
    ELSE Ret(obj, is_tag.heap)

\* Any(*objs)
Any(objs, h, dbg) ==
    IF Len(objs) = 0 THEN Anything_init(h)
    ELSE IF Len(objs) = 1
    THEN AnyOne(objs[1], dbg, Contains(JsonValueType, objs[1], 1, h, dbg))
    ELSE AnyUnion_init(AnyEach(objs, 1, <<>>, h, dbg))

\* AnyBase.union (and __or__, __ror__, which only call it)
union(self, other, h, dbg) == Any(<<self, other>>, h, dbg)

(* The schema author's expression, evaluated left to right. *)
RECURSIVE Eval(_, _, _)
RECURSIVE EvalSeq(_, _, _, _, _)
RECURSIVE EvalItems(_, _, _, _, _)

EvalSeqRest(es, i, done, dbg, r) ==
    IF r.exc # "" THEN r
    ELSE EvalSeq(es, i + 1, Append(done, r.val), r.heap, dbg)

EvalSeq(es, i, done, h, dbg) ==
    IF i > Len(es) THEN Ret(done, h)
    ELSE EvalSeqRest(es, i, done, dbg, Eval(es[i], h, dbg))

EvalItemsRest(es, i, done, dbg, r) ==
    IF r.exc # "" THEN r
    ELSE EvalItems(es, i + 1, Append(done, Pair(es[i].key, r.val)), r.heap, dbg)

EvalItems(es, i, done, h, dbg) ==
    IF i > Len(es) THEN Ret(done, h)
    ELSE EvalItemsRest(es, i, done, dbg, Eval(es[i].val, h, dbg))

\* Any(e1, ..., en) once the arguments are evaluated
EvalCall(args, dbg) ==
    IF args.exc # "" THEN args ELSE Any(args.val, args.heap, dbg)

\* a | b once the operands are evaluated: a.__or__(b) of an AnyBase a, else
\* b.__ror__(a) of an AnyBase b
EvalOr(args, dbg) ==
    IF args.exc # "" THEN args
    ELSE IF args.val[1].k = "ref"
    THEN union(args.val[1], args.val[2], args.heap, dbg)
    ELSE IF args.val[2].k = "ref"
    THEN union(args.val[2], args.val[1], args.heap, dbg)
    ELSE Raise("TypeError: unsupported operand", args.heap)

\* a list, set or dict display once its items are evaluated
EvalDisplay(kind, items) ==
    IF items.exc # "" THEN items
    ELSE Ret([k |-> kind, v |-> items.val], items.heap)

Eval(e, h, dbg) ==
    CASE e.k = "call" -> EvalCall(EvalSeq(e.v, 1, <<>>, h, dbg), dbg)
      [] e.k = "or" -> EvalOr(EvalSeq(e.v, 1, <<>>, h, dbg), dbg)
      [] e.k \in {"list", "set"} -> EvalDisplay(e.k, EvalSeq(e.v, 1, <<>>, h, dbg))
      [] e.k = "dict" -> EvalDisplay("dict", EvalItems(e.v, 1, <<>>, h, dbg))
      [] OTHER -> Ret(e, h)

-----
(* Inputs *)

\* longest candidate list
MaxLen == 3
\* longest list display of a schema, the sentinel not counted
MaxItems == 2

\* the sequences over S of length at most n
SeqsUpTo(S, n) == UNION {[1..m -> S] : m \in 0..n}

Wildcard == Call(<<>>)
AnyInt == Call(<<Type("int")>>)

\* what a schema author puts in a slot
Slots == {None, PyInt(1), PyStr("a"), Wildcard, AnyInt}

KeyA == PyStr("a")
KeyB == PyStr("b")

ListDisplays ==
    {List(s) : s \in SeqsUpTo(Slots, MaxItems)}
        \cup {List(Append(s, Ellipsis)) : s \in SeqsUpTo(Slots, MaxItems)}
        \cup {List(<<Ellipsis, x>>) : x \in Slots}
        \cup {List(<<Call(<<List(<<x, Ellipsis>>)>>), Ellipsis>>) : x \in Slots}

DictDisplays ==
    {Dict(<<>>)}
        \cup {Dict(<<Pair(key, x)>>) : key \in {KeyA, Ellipsis}, x \in Slots}
        \cup {Dict(<<Pair(KeyA, x), Pair(key, y)>>) :
                key \in {KeyB, Ellipsis}, x \in Slots, y \in Slots}

SetDisplays ==
    {SetOf(<<x>>) : x \in Slots} \cup {SetOf(<<x, y>>) : x \in Slots, y \in Slots}

Alternatives ==
    Slots \cup {Type("bool"), List(<<PyInt(1)>>), Dict(<<Pair(KeyA, AnyInt)>>),
                SetOf(<<PyInt(1)>>)}

Unions ==
    {Call(<<a, b>>) : a \in Alternatives, b \in Alternatives}
        \cup {Or(a, b) : a \in {Wildcard, AnyInt}, b \in Alternatives}
        \cup {Or(a, b) : a \in Alternatives, b \in {Wildcard, AnyInt}}
        \cup {Call(<<AnyInt, PyStr("a"), None>>), Or(Or(AnyInt, PyStr("a")), None),
              Call(<<Call(<<Wildcard, PyInt(1)>>), None>>)}

\* the expressions a JsonValidator is built from
SchemaExprs ==
    Slots \cup {True, List(<<PyInt(1)>>), List(<<AnyInt, PyInt(1)>>),
                Dict(<<Pair(KeyA, AnyInt)>>)}
        \cup {Call(<<x>>) : x \in Alternatives \cup {Type("float"), Type("dict")}}
        \cup {Call(<<d>>) : d \in ListDisplays}
        \cup {Call(<<d>>) : d \in DictDisplays}
        \cup {Call(<<d>>) : d \in SetDisplays}
        \cup Unions

Items == {PyInt(1), PyStr("a")}
Values == {None, PyInt(1)}

\* the JSON values validated
Candidates ==
    {None, True, False, PyInt(1), PyInt(2), PyFloat(1), PyStr("a")}
        \cup {List(s) : s \in SeqsUpTo(Items, MaxLen)}
        \cup {List(<<True>>), List(<<PyInt(1), True>>)}
        \cup {List(<<List(s)>>) : s \in SeqsUpTo(Items, 1)}
        \cup {Dict(<<>>)}
        \cup {Dict(<<Pair(key, x)>>) : key \in {KeyA, KeyB}, x \in Values}
        \cup {Dict(<<Pair(KeyA, x), Pair(KeyB, y)>>) : x \in Values, y \in Values}

-----------------------------------------------------------------------------
(* The library as used from one thread *)

\* what the caller sees of an evaluation
ResOf(r) == IF r.exc # "" THEN r.exc ELSE IF r.val THEN "True" ELSE "False"

NoCall == [op |-> "none", arg |-> None, dbg |-> FALSE, res |-> ""]

\* no thread is inside AnyList.eq
Idle == [t \in {1, 2} |-> [pc |-> "idle", other |-> None, res |-> "", i |-> 0,
                            item_to_repeat |-> None, n |-> 0, wrote |-> FALSE]]

Init ==
    /\ heap = <<>>
    /\ heap0 = <<>>
    /\ schema = None
    /\ source = None
    /\ DEBUG = FALSE
    /\ pc = "new"
    /\ last = NoCall
    /\ threads = Idle

\* JsonValidator.debug(enable)
debug(enable) ==
    /\ DEBUG' = enable
    /\ last' = [op |-> "debug", arg |-> None, dbg |-> enable, res |-> "None"]
    /\ UNCHANGED <<heap, heap0, schema, source, pc, threads>>

\* JsonValidator(<e>): the expression is evaluated, then __init__ keeps the schema
JsonValidator_init(e) ==
    /\ pc = "new"
    /\ \E r \in {Eval(e, <<>>, DEBUG)} :
        /\ source' = e
        /\ heap' = r.heap
        /\ heap0' = r.heap
        /\ schema' = IF r.exc = "" THEN r.val ELSE None
        /\ pc' = IF r.exc = "" THEN "built" ELSE "failed"
        /\ last' = [op |-> "Any", arg |-> None, dbg |-> DEBUG,
                    res |-> IF r.exc = "" THEN "ok" ELSE r.exc]
    /\ UNCHANGED <<DEBUG, threads>>

\* JsonValidator.validate(json_obj)
Validate(json_obj) ==
    /\ pc = "built"
    /\ \E r \in {validate(schema, json_obj, heap, DEBUG)} :
        /\ heap' = r.heap
        /\ last' = [op |-> "validate", arg |-> json_obj, dbg |-> DEBUG, res |-> ResOf(r)]
    /\ UNCHANGED <<heap0, schema, source, DEBUG, pc, threads>>

Next ==
    \/ \E enable \in BOOLEAN : debug(enable)
    \/ \E e \in SchemaExprs : JsonValidator_init(e)
    \/ \E json_obj \in Candidates : Validate(json_obj)

Spec == Init /\ [][Next]_vars

-----------------------------------------------------------------------------
(* What the properties below are stated with *)

\* e, built on its own without DEBUG, compares equal to the value v
MatchesAlone(e, v) ==
    \E c \in {Eval(e, <<>>, FALSE)} :
        /\ c.exc = ""
        /\ \E r \in {Eq(c.val, v, c.heap, FALSE)} : r.exc = "" /\ r.val

\* validate(v) on a freshly built copy of the schema, DEBUG off
FreshResult(v) ==
    ResOf(CHOOSE r \in {validate(c.val, v, c.heap, FALSE) :
                            c \in {Eval(source, <<>>, FALSE)}} : TRUE)

\* the last call was validate(json_obj) with DEBUG as given
Validated(dbg) == pc = "built" /\ last.op = "validate" /\ last.dbg = dbg

\* the schema was built as Any([...]) from a list display
FromList == source.k = "call" /\ Len(source.v) = 1 /\ source.v[1].k = "list"

display == source.v[1].v

NoSentinel(items) == \A i \in 1..Len(items) : items[i] # Ellipsis

\* Any([p1, ..., pn, ...]) with n >= 1 and no other sentinel
RepeatLast ==
    /\ FromList
    /\ Len(display) >= 2
    /\ display[Len(display)] = Ellipsis
    /\ NoSentinel(SubSeq(display, 1, Len(display) - 1))

\* C4: a repeat-last ListMatch [p1, ..., pn, sentinel] matches a list of at
\* least n elements iff c[i] matches pi for every i <= n and every later
\* element matches pn, whatever was validated against the node before.
C4_RepeatLastMatch ==
    (/\ Validated(FALSE)
     /\ RepeatLast
     /\ last.arg.k = "list"
     /\ Len(last.arg.v) >= Len(display) - 1)
    => (last.res = "True"
        <=> \A i \in 1..Len(last.arg.v) :
                MatchesAlone(display[IF i < Len(display) THEN i ELSE Len(display) - 1],
                             last.arg.v[i]))

\* a matching candidate validated after a longer one had extended the node
C4_Witness ==
    /\ Validated(FALSE)
    /\ RepeatLast
    /\ last.arg.k = "list"
    /\ Len(last.arg.v) >= Len(display) - 1
    /\ Len(last.arg.v) > 1
    /\ Len(last.arg.v) < Len(heap[schema.v].required_items)
    /\ last.res = "True"

\* C9: with DEBUG off, validate(v) returns what the first validate(v) on a
\* freshly built copy of the schema returns, whatever was validated before.
C9_HistoryIndependent ==
    Validated(FALSE) => last.res = FreshResult(last.arg)

\* a candidate rejected by a schema that earlier validations have changed
C9_Witness ==
    /\ Validated(FALSE)
    /\ heap # heap0
    /\ last.arg.k = "list"
    /\ Len(last.arg.v) < Len(heap[schema.v].required_items)
    /\ last.res = "False"

\* the schema was built as Any(a1, ..., an) with n >= 2, or as a | b
IsUnion == source.k \in {"call", "or"} /\ Len(source.v) >= 2

\* C1: validating v against a union Any(a1, ..., an) or a | b completes with
\* a boolean, which is true iff v matches some Any(ai) taken on its own.
C1_UnionMatchesSomeAlternative ==
    (Validated(FALSE) /\ IsUnion)
    => /\ last.res \in {"True", "False"}
       /\ last.res = "True"
            <=> \E i \in 1..Len(source.v) :
                    MatchesAlone(Call(<<source.v[i]>>), last.arg)

\* the schema was built as Any({...}) from a dict display
FromDict == source.k = "call" /\ Len(source.v) = 1 /\ source.v[1].k = "dict"

\* C2: a DictMatch does not match a Map that lacks one of its listed keys,
\* whatever the slot under that key is.
C2_MissingKeyFails ==
    (/\ Validated(FALSE)
     /\ FromDict
     /\ last.arg.k = "dict"
     /\ \E i \in 1..Len(source.v[1].v) :
            /\ source.v[1].v[i].key # Ellipsis
            /\ ~HasKey(last.arg.v, source.v[1].v[i].key))
    => last.res = "False"

\* C3: a ListMatch built without the sentinel matches a list c iff c has at
\* least as many elements as the required sequence and every required element
\* matches the element of c at its position.
C3_RequiredPrefix ==
    (/\ Validated(FALSE)
     /\ FromList
     /\ NoSentinel(display)
     /\ last.arg.k = "list")
    => (last.res = "True"
        <=> /\ Len(last.arg.v) >= Len(display)
            /\ \A i \in 1..Len(display) : MatchesAlone(display[i], last.arg.v[i]))

\* the schema expression e asks for a number where v has a boolean, or for a
\* boolean where v has a number, at a position the two have in common
RECURSIVE CrossKind(_, _)
CrossKind(e, v) ==
    IF e.k \in {"int", "float"} THEN v.k = "bool"
    ELSE IF e.k = "bool" THEN v.k \in {"int", "float"}
    ELSE IF e.k = "list" THEN
        /\ v.k = "list"
        /\ Len(v.v) = Len(e.v)
        /\ \E i \in 1..Len(e.v) : CrossKind(e.v[i], v.v[i])
    ELSE IF e.k = "call" /\ Len(e.v) = 1 THEN
        IF e.v[1] \in {Type("int"), Type("float")} THEN v.k = "bool"
        ELSE IF e.v[1].k = "list" THEN
            /\ v.k = "list"
            /\ NoSentinel(e.v[1].v)
            /\ \E i \in 1..Len(e.v[1].v) :
                    i <= Len(v.v) /\ CrossKind(e.v[1].v[i], v.v[i])
        ELSE IF e.v[1].k = "dict" THEN
            /\ v.k = "dict"
            /\ \E i \in 1..Len(e.v[1].v) :
                    /\ HasKey(v.v, e.v[1].v[i].key)
                    /\ CrossKind(e.v[1].v[i].val, DictGet(v.v, e.v[1].v[i].key))
        ELSE FALSE
    ELSE FALSE

\* C5: booleans and numbers never cross-match, at the top level of validate
\* or inside a dict or list slot.
C5_NoBoolNumberCrossMatch ==
    (Validated(FALSE) /\ CrossKind(source, last.arg)) => last.res = "False"

\* the sentinel before the final position, or as the only element
Misplaced(items) ==
    \/ \E i \in 1..(Len(items) - 1) : items[i] = Ellipsis
    \/ items = <<Ellipsis>>

\* C6: Any(list display) fails exactly when the sentinel is misplaced; without
\* a sentinel it succeeds, records no repetition and keeps every element;
\* repetition is recorded only when the final element is the sentinel.
C6_ListConstruction ==
    (last.op = "Any" /\ ~last.dbg /\ FromList)
    => /\ pc = "failed" <=> Misplaced(display)
       /\ NoSentinel(display)
            => /\ pc = "built"
               /\ ~heap[schema.v].has_ellipsis
               /\ heap[schema.v].required_items
                    = EvalSeq(display, 1, <<>>, <<>>, FALSE).val
       /\ (pc = "built" /\ heap[schema.v].has_ellipsis)
            => display[Len(display)] = Ellipsis

\* the outcome of building the schema with DEBUG off
BuiltWithoutDebug ==
    CHOOSE res \in {IF c.exc = "" THEN "ok" ELSE c.exc :
                        c \in {Eval(source, <<>>, FALSE)}} : TRUE

\* C7: with DEBUG on, validate raises iff it returns false with DEBUG off and
\* returns true otherwise, and building a schema raises nothing that it does
\* not raise with DEBUG off.
C7_DebugOnlyOutermost ==
    /\ (Validated(TRUE) /\ FreshResult(last.arg) = "True") => last.res = "True"
    /\ (Validated(TRUE) /\ FreshResult(last.arg) = "False")
            => last.res = SchemaMismatch
    /\ (last.op = "Any" /\ last.dbg) => last.res = BuiltWithoutDebug

\* C8: after any sequence of validate calls every attribute of every node of
\* the schema is what construction made it.
C8_NoMutation == pc = "built" => heap = heap0

-----------------------------------------------------------------------------
(* Two threads validating against one AnyList: AnyList.eq step by step.    *)
(* A step is what the interpreter runs without releasing its lock: a test, *)
(* a read of self.required_items, the in-place extension, one comparison   *)
(* of the zip.                                                             *)

Threads == {1, 2}

\* the schemas the threads share
ThreadSchemas == {Call(<<d>>) : d \in {x \in ListDisplays : Len(x.v) <= 2}}

\* the values the threads validate
ThreadCandidates == {None} \cup {List(c) : c \in SeqsUpTo(Items, MaxLen)}

Calling(json_obj) ==
    [pc |-> "call", other |-> json_obj, res |-> "", i |-> 0,
     item_to_repeat |-> None, n |-> 0, wrote |-> FALSE]

InitThreads ==
    /\ DEBUG = FALSE
    /\ \E e \in ThreadSchemas : \E c \in {Eval(e, <<>>, FALSE)} :
        /\ c.exc = ""
        /\ source = e
        /\ schema = c.val
        /\ heap = c.heap
        /\ heap0 = c.heap
    /\ pc = "built"
    /\ last = NoCall
    /\ threads \in [Threads -> {Calling(v) : v \in ThreadCandidates}]

\* __eq_impl once eq has returned is_equal
Returned(t, is_equal) ==
    [threads[t] EXCEPT !.pc = "done",
                       !.res = IF DEBUG /\ ~is_equal THEN SchemaMismatch
                               ELSE IF is_equal THEN "True" ELSE "False"]

\* validate -> __eq__ -> __eq_impl -> eq, up to `if self.has_ellipsis`
T_call(t) ==
    /\ threads[t].pc = "call"
    /\ threads' = [threads EXCEPT ![t] =
            IF threads[t].other.k # "list" THEN Returned(t, FALSE)
            ELSE IF heap[schema.v].has_ellipsis THEN [@ EXCEPT !.pc = "item"]
            ELSE [@ EXCEPT !.pc = "zip", !.i = 1]]
    /\ UNCHANGED <<heap, heap0, schema, source, DEBUG, pc, last>>

\* item_to_repeat = self.required_items[-1]
T_item(t) ==
    /\ threads[t].pc = "item"
    /\ threads' = [threads EXCEPT ![t].pc = "len",
            ![t].item_to_repeat =
                heap[schema.v].required_items[Len(heap[schema.v].required_items)]]
    /\ UNCHANGED <<heap, heap0, schema, source, DEBUG, pc, last>>

\* len(other) - len(self.required_items)
T_len(t) ==
    /\ threads[t].pc = "len"
    /\ threads' = [threads EXCEPT ![t].pc = "extend",
            ![t].n = Len(threads[t].other.v) - Len(heap[schema.v].required_items)]
    /\ UNCHANGED <<heap, heap0, schema, source, DEBUG, pc, last>>

\* required_items += [item_to_repeat] * n
T_extend(t) ==
    /\ threads[t].pc = "extend"
    /\ heap' = [heap EXCEPT ![schema.v].required_items =
                    @ \o Repeat(threads[t].item_to_repeat, threads[t].n)]
    /\ threads' = [threads EXCEPT ![t].pc = "zip", ![t].i = 1,
                                  ![t].wrote = @ \/ heap' # heap]
    /\ UNCHANGED <<heap0, schema, source, DEBUG, pc, last>>

\* one round of all(a == b for a, b in zip(required_items, other))
T_zip(t) ==
    /\ threads[t].pc = "zip"
    /\ IF \/ threads[t].i > Len(heap[schema.v].required_items)
          \/ threads[t].i > Len(threads[t].other.v)
       THEN /\ threads' = [threads EXCEPT ![t] = Returned(t, TRUE)]
            /\ heap' = heap
       ELSE \E r \in {Eq(heap[schema.v].required_items[threads[t].i],
                         threads[t].other.v[threads[t].i], heap, DEBUG)} :
            /\ heap' = r.heap
            /\ threads' = [threads EXCEPT ![t] =
                    IF r.exc # "" THEN [@ EXCEPT !.pc = "done", !.res = r.exc,
                                                 !.wrote = @ \/ r.heap # heap]
                    ELSE IF ~r.val
                    THEN [Returned(t, FALSE) EXCEPT !.wrote = @ \/ r.heap # heap]
                    ELSE [@ EXCEPT !.i = @ + 1, !.wrote = @ \/ r.heap # heap]]
    /\ UNCHANGED <<heap0, schema, source, DEBUG, pc, last>>

NextThreads ==
    \E t \in Threads :
        \/ T_call(t)
        \/ T_item(t)
        \/ T_len(t)
        \/ T_extend(t)
        \/ T_zip(t)

SpecThreads == InitThreads /\ [][NextThreads]_vars

\* C10: two threads validating against one schema, their steps interleaved,
\* each get the result of running alone on a fresh schema, and no step of
\* the matcher writes to the state they share.
C10_ConcurrentValidationSafe ==
    \A t \in Threads :
        /\ threads[t].pc = "done" => threads[t].res = FreshResult(threads[t].other)
        /\ ~threads[t].wrote

====
